---------------------------- MODULE Spec2Model ----------------------------
(***************************************************************************)
(* A model of src/app.py, the research-to-draft pipeline of the AI         *)
(* Affiliate Blog Writer: the text-generation client and its retry         *)
(* decorator, the result summarizer, the product extractor, the content-   *)
(* gap analyzer and generate_blog_post.                                    *)
(*                                                                         *)
(* Five specifications: SpecGen, SpecSum and SpecExt call one component    *)
(* on its own, SpecConc interleaves the calls of two runs in one process,  *)
(* and Spec is one run of main() from the button to the message shown.     *)
(* The streamlit calls (st.error, st.warning, st.markdown, ...) display    *)
(* and return; they are part of the step that makes them.                  *)
(*                                                                         *)
(* Texts are sequences of characters over a two-letter alphabet (a letter  *)
(* and a blank), so that str.strip() and Python truthiness are computed,   *)
(* not assumed.  Python's None is the record NoneVal; a present text t is  *)
(* Some(t).                                                                *)
(***************************************************************************)
EXTENDS Integers, Sequences, FiniteSets

VARIABLES
    \* the calls that reached the text-generation service, in order, and
    \* whether the service has answered one of them with a quota failure
    genLog, quotaSeen,
    \* one call of generate_text_with_exception_handling
    genScript, genpc, genResult,
    \* one call of summarize_serp_results
    serp_results, max_to_summarize, sumpc, sumIdx, summaries,
    \* one call of extract_products_from_summaries
    extSummaries, extKey, extResponse, extpc, extResult,
    \* one stand-alone call of the gap analyzer on the same summaries and key
    gapResponse, gappc, gapResult,
    \* the widgets main() reads, and the environment's default keys
    input_blog_keywords, num_serp_results,
    user_metaphor_api_key, user_gemini_api_key, env_metaphor_api_key, env_gemini_api_key,
    \* what the search service answers when it is asked
    searchAnswer,
    \* one run: main() and generate_blog_post()
    runpc, metaphor_api_key, gemini_api_key, searched, searchCalls,
    products, selected_products, content_gaps, prompt, blog_post, raisedExc, message,
    \* two runs in one process: the key genai.configure last stored, each
    \* run's key, position and finished calls, and the requests sent
    configured, ckey, cpc, ccalls, requests

genVars == <<genScript, genpc, genResult>>
sumVars == <<serp_results, max_to_summarize, sumpc, sumIdx, summaries>>
extVars == <<extSummaries, extKey, extResponse, extpc, extResult,
             gapResponse, gappc, gapResult>>
inputVars == <<input_blog_keywords, num_serp_results, user_metaphor_api_key,
               user_gemini_api_key, env_metaphor_api_key, env_gemini_api_key,
               searchAnswer>>
runVars == <<runpc, metaphor_api_key, gemini_api_key, searched, searchCalls,
             products, selected_products, content_gaps, prompt, blog_post,
             raisedExc, message>>
concVars == <<configured, ckey, cpc, ccalls, requests>>
vars == <<genLog, quotaSeen, genVars, sumVars, extVars, inputVars, runVars, concVars>>

---------------------------------------------------------------------------
\* Bounds of the model.
MaxText == 1
MaxResults == 2
MaxLimit == 3
MaxRaw == 5
MaxRunProducts == 2
MaxConcCalls == 2
MaxManyResults == 6
MaxLongProducts == 11

Min(a, b) == IF a < b THEN a ELSE b

---------------------------------------------------------------------------
\* Texts and Python's str operations.
Chars == {"a", " "}
Texts == UNION {[1..n -> Chars] : n \in 0..MaxText}

NoneVal == [some |-> FALSE, text |-> <<>>]
Some(t) == [some |-> TRUE, text |-> t]

\* Python truthiness of an optional text: None and "" are falsy.
Truthy(v) == v.some /\ Len(v.text) > 0

RECURSIVE LStrip(_)
LStrip(t) == IF t # <<>> /\ Head(t) = " " THEN LStrip(Tail(t)) ELSE t

RECURSIVE RStrip(_)
RStrip(t) ==
    IF t # <<>> /\ t[Len(t)] = " " THEN RStrip(SubSeq(t, 1, Len(t) - 1)) ELSE t

\* str.strip()
Strip(t) == RStrip(LStrip(t))

---------------------------------------------------------------------------
\* The remote text-generation service: what one send_message does.
ErrorOutcome == [kind |-> "error", text |-> <<>>]
QuotaOutcome == [kind |-> "quota", text |-> <<>>]
TextOutcome(t) == [kind |-> "text", text |-> t]
ServiceOutcome == {TextOutcome(t) : t \in Texts} \cup {ErrorOutcome, QuotaOutcome}

Fails(o) == o.kind # "text"

\* The failure an answer is, for the message of its exception.
FailureOf(o) == IF Fails(o) THEN o.kind ELSE "none"

\* stop_after_attempt(6) of the @retry decorator.
StopAfterAttempt == 6

\* What the service answers on its 1st, 2nd, ... invocation within one call.
Scripts == [1..StopAfterAttempt -> ServiceOutcome]

\* Does the decorated function body let the exception of a failed model
\* call escape to the decorator?  The body's "except Exception" catches it,
\* reports it with st.exception (a display call, taken to return) and
\* returns None.
FnRaises(o) == FALSE

\* The function body: configure, create the model, send the prompt, return
\* convo.last.text; on any exception report it and return None.
FnBody(o) ==
    [raised |-> FnRaises(o),
     value  |-> IF Fails(o) THEN NoneVal ELSE Some(o.text)]

\* tenacity's loop: an attempt that returns ends the call with its value; an
\* attempt that raises is repeated until stop_after_attempt, and then the
\* call raises (RetryError).
RECURSIVE RetryCall(_, _)
RetryCall(script, n) ==
    LET r == FnBody(script[n])
    IN  IF ~r.raised
          THEN [raised |-> FALSE, value |-> r.value, attempts |-> n,
                failure |-> FailureOf(script[n])]
          ELSE IF n >= StopAfterAttempt
                 THEN [raised |-> TRUE, value |-> NoneVal, attempts |-> n,
                       failure |-> FailureOf(script[n])]
                 ELSE RetryCall(script, n + 1)

generate_text_with_exception_handling(script) == RetryCall(script, 1)

\* Every result one call can have, over all behaviours of the service.
GenResults == {generate_text_with_exception_handling(s) : s \in Scripts}

\* An entry of the log of calls that reached the text-generation service.
LogEntry(stage, index, attempts) ==
    [stage |-> stage, index |-> index, attempts |-> attempts]

NoGenResult ==
    [raised |-> FALSE, value |-> NoneVal, attempts |-> 0, failure |-> "none"]

---------------------------------------------------------------------------
\* One call of the text-generation client.
GenIdle ==
    /\ genScript = [i \in 1..StopAfterAttempt |-> ErrorOutcome]
    /\ genpc = "off"
    /\ genResult = NoGenResult

GenInit ==
    /\ genScript \in Scripts
    /\ genpc = "call"
    /\ genResult = NoGenResult

GenCall ==
    /\ genpc = "call"
    /\ genResult' = generate_text_with_exception_handling(genScript)
    /\ genpc' = "done"
    /\ UNCHANGED <<genScript, genLog, quotaSeen, sumVars, extVars, inputVars, runVars, concVars>>

---------------------------------------------------------------------------
\* Search results.  A field the result object lacks reads as None
\* (getattr(result, name, None)); titles and urls are opaque strings.
PyNone == "<None>"

\* not api_key: the key is the empty string or None.
KeyMissingMutant(k) == k = ""
KeyMissing(k) == k = "" \/ k = PyNone

\* How an f-string renders a title or url.
Format(x) == IF x = PyNone THEN "None" ELSE x

SearchResult(t, u, c, e, d, s) ==
    [title |-> t, url |-> u, content |-> c, extract |-> e,
     description |-> d, snippet |-> s]

ResultPool ==
    { SearchResult("t1", "u1", Some(<<"a">>), NoneVal, NoneVal, NoneVal),
      SearchResult("t2", "u2", Some(<<>>), NoneVal, Some(<<>>), NoneVal),
      SearchResult(PyNone, PyNone, NoneVal, NoneVal, NoneVal, Some(<<"a">>)),
      SearchResult("t3", "u3", NoneVal, Some(<<>>), Some(<<" ">>), NoneVal) }

ResultSeqs == UNION {[1..n -> ResultPool] : n \in 0..MaxResults}

\* a or b : the first operand if it is truthy, else the second.
PyOr(a, b) == IF Truthy(a) THEN a ELSE b

\* content or extract or description or snippet or ''
\* (ContentOfMutant: the same chain with the snippet field forgotten.)
ContentOfMutant(result) ==
    PyOr(result.content, PyOr(result.extract,
        PyOr(result.description, Some(<<>>)))).text
ContentOf(result) ==
    PyOr(result.content, PyOr(result.extract,
        PyOr(result.description, PyOr(result.snippet, Some(<<>>))))).text

\* seq[:n]
\* (SliceMutant: the slice taken one element too long.)
SliceMutant(seq, n) ==
    IF n >= 0 THEN SubSeq(seq, 1, Min(n + 1, Len(seq)))
              ELSE SubSeq(seq, 1, IF Len(seq) + n > 0 THEN Len(seq) + n ELSE 0)
Slice(seq, n) ==
    IF n >= 0 THEN SubSeq(seq, 1, Min(n, Len(seq)))
              ELSE SubSeq(seq, 1, IF Len(seq) + n > 0 THEN Len(seq) + n ELSE 0)

\* The two placeholder summaries, as the pieces of their f-strings.
NoContentSummary(title, url) ==
    <<"(No content available to summarize. Title: ", Format(title),
      ", URL: ", Format(url), ")">>
FailedSummary(title, url) ==
    <<"(Failed to summarize. Title: ", Format(title),
      ", URL: ", Format(url), ")">>

\* summary.strip() if summary else f'(Failed to summarize. ...)'
SummaryText(value, title, url) ==
    IF Truthy(value) THEN Strip(value.text) ELSE FailedSummary(title, url)

Summary(title, url, text) == [title |-> title, url |-> url, summary |-> text]

---------------------------------------------------------------------------
\* summarize_serp_results(serp_results, gemini_api_key, max_to_summarize)
SumIdle ==
    /\ serp_results = <<>>
    /\ max_to_summarize = 0
    /\ sumpc = "off"
    /\ sumIdx = 0
    /\ summaries = <<>>

SumInit ==
    /\ serp_results \in ResultSeqs
    /\ max_to_summarize \in 0..MaxLimit
    /\ sumpc = "loop"
    /\ sumIdx = 0
    /\ summaries = <<>>

\* One iteration of the for loop over serp_results[:max_to_summarize].
SumIter ==
    /\ sumpc = "loop"
    /\ sumIdx < Len(Slice(serp_results, max_to_summarize))
    /\ LET result  == Slice(serp_results, max_to_summarize)[sumIdx + 1]
           url     == result.url
           title   == result.title
           content == ContentOf(result)
       IN  IF Len(content) = 0
             THEN /\ summaries' = Append(summaries,
                        Summary(title, url, NoContentSummary(title, url)))
                  /\ sumIdx' = sumIdx + 1
                  /\ UNCHANGED <<sumpc, genLog, quotaSeen>>
             ELSE \E g \in GenResults :
                  /\ genLog' = Append(genLog,
                        LogEntry("summary", sumIdx + 1, g.attempts))
                  /\ quotaSeen' = (quotaSeen \/ g.failure = "quota")
                  /\ IF g.raised
                       THEN /\ sumpc' = "raised"
                            /\ UNCHANGED <<summaries, sumIdx>>
                       ELSE /\ summaries' = Append(summaries,
                                  Summary(title, url, SummaryText(g.value, title, url)))
                            /\ sumIdx' = sumIdx + 1
                            /\ UNCHANGED sumpc
    /\ UNCHANGED <<serp_results, max_to_summarize, genVars, extVars, inputVars, runVars, concVars>>

\* The loop is exhausted: return summaries.
SumReturn ==
    /\ sumpc = "loop"
    /\ sumIdx >= Len(Slice(serp_results, max_to_summarize))
    /\ sumpc' = "done"
    /\ UNCHANGED <<serp_results, max_to_summarize, sumIdx, summaries, genLog, quotaSeen, genVars, extVars,
                   inputVars, runVars, concVars>>

---------------------------------------------------------------------------
\* C2: for every k in 1..5, if the model call fails on its first k
\* invocations and succeeds on invocation k+1, the call re-invokes the
\* model after each failure (k+1 attempts) and returns the text of the
\* successful invocation, not absence.
C2_RetriesUntilSuccess ==
    genpc = "done" =>
        \A k \in 1..(StopAfterAttempt - 1) :
            ( /\ \A i \in 1..k : Fails(genScript[i])
              /\ ~Fails(genScript[k + 1]) )
            => /\ ~genResult.raised
               /\ genResult.attempts = k + 1
               /\ genResult.value = Some(genScript[k + 1].text)

\* C3: if the model call fails on every invocation, the call makes 6
\* attempts in total, never more, and then returns None without raising.
C3_SixAttemptsThenNone ==
    (genpc = "done" /\ \A i \in 1..StopAfterAttempt : Fails(genScript[i]))
        => /\ genResult.attempts = StopAfterAttempt
           /\ genResult.value = NoneVal
           /\ ~genResult.raised

---------------------------------------------------------------------------
\* The model's answer to the product-extraction prompt, as a sequence of
\* tokens: brackets, commas, JSON atoms and prose.
\*   "N"  an object with a name:        {"name": "X", "url": "Y"}
\*   "E"  an object with an empty name: {"name": "", "url": "Y"}
\*   "U"  an object without a name:     {"url": "Y"}
\*   "S"  a JSON string that contains the letters name: "brand name"
\*   "1"  a number
\*   "x"  prose, not JSON
\* Atoms are taken to contain no bracket of their own.
Tokens == {"[", "]", ",", "N", "E", "U", "S", "1", "x"}
RawTexts == UNION {[1..n -> Tokens] : n \in 0..MaxRaw}

\* JSON values as Python sees them after json.loads.
JObj(hasName, name) ==
    [kind |-> "obj", hasName |-> hasName, name |-> name, url |-> "Y", items |-> <<>>]
JStr == [kind |-> "str", hasName |-> FALSE, name |-> "", url |-> "", items |-> <<>>]
JNum == [kind |-> "num", hasName |-> FALSE, name |-> "", url |-> "", items |-> <<>>]
JArr(items) ==
    [kind |-> "arr", hasName |-> FALSE, name |-> "", url |-> "", items |-> items]

IsAtom(tok) == tok \in {"N", "E", "U", "S", "1"}
AtomValue(tok) ==
    CASE tok = "N" -> JObj(TRUE, "X")
      [] tok = "E" -> JObj(TRUE, "")
      [] tok = "U" -> JObj(FALSE, "")
      [] tok = "S" -> JStr
      [] OTHER     -> JNum

ParseFail == [ok |-> FALSE, value |-> JNum, rest |-> <<>>]

\* The JSON grammar over tokens: value ::= atom | "[" "]" |
\* "[" value ("," value)* "]".
RECURSIVE ParseValue(_)
RECURSIVE ParseItems(_, _, _)
ParseValue(ts) ==
    IF ts = <<>> THEN ParseFail
    ELSE IF IsAtom(Head(ts))
           THEN [ok |-> TRUE, value |-> AtomValue(Head(ts)), rest |-> Tail(ts)]
    ELSE IF Head(ts) = "[" THEN ParseItems(Tail(ts), <<>>, TRUE)
    ELSE ParseFail

\* Inside an array: first is TRUE right after the opening bracket.
ParseItems(ts, acc, first) ==
    IF ts = <<>> THEN ParseFail
    ELSE IF first /\ Head(ts) = "]"
           THEN [ok |-> TRUE, value |-> JArr(acc), rest |-> Tail(ts)]
    ELSE IF first
           THEN LET v == ParseValue(ts)
                IN  IF v.ok THEN ParseItems(v.rest, Append(acc, v.value), FALSE)
                            ELSE ParseFail
    ELSE IF Head(ts) = "]"
           THEN [ok |-> TRUE, value |-> JArr(acc), rest |-> Tail(ts)]
    ELSE IF Head(ts) = ","
           THEN LET v == ParseValue(Tail(ts))
                IN  IF v.ok THEN ParseItems(v.rest, Append(acc, v.value), FALSE)
                            ELSE ParseFail
    ELSE ParseFail

\* json.loads(raw): the whole text must be one JSON value.
JsonLoads(raw) ==
    LET r == ParseValue(raw)
    IN  IF r.ok /\ r.rest = <<>> THEN [ok |-> TRUE, value |-> r.value]
                                 ELSE [ok |-> FALSE, value |-> JNum]

\* re.search(r'(\[.*?\])', raw, re.DOTALL): from the leftmost "[" to the
\* first "]" after it.
RegexSearch(raw) ==
    LET opens == {i \in 1..Len(raw) : raw[i] = "["}
    IN  IF opens = {} THEN [found |-> FALSE, group |-> <<>>]
        ELSE LET i == CHOOSE k \in opens : \A m \in opens : k <= m
                 closes == {j \in (i + 1)..Len(raw) : raw[j] = "]"}
             IN  IF closes = {} THEN [found |-> FALSE, group |-> <<>>]
                 ELSE LET j == CHOOSE k \in closes : \A m \in closes : k <= m
                      IN  [found |-> TRUE, group |-> SubSeq(raw, i, j)]

\* What a stage of the function hands on: a value, or an exception.
Returned(v) == [raised |-> FALSE, value |-> v]
Raised == [raised |-> TRUE, value |-> JArr(<<>>)]

\* 'name' in p, for one parsed entry p: key membership for an object,
\* substring test for a string, element membership for a list, TypeError
\* for a number.
NameInRaises(p) == p.kind = "num"
NameIn(p) ==
    CASE p.kind = "obj" -> p.hasName
      [] p.kind = "str" -> TRUE
      [] OTHER          -> FALSE

RECURSIVE Filter(_)
Filter(items) ==
    IF items = <<>> THEN <<>>
    ELSE IF NameIn(Head(items)) THEN <<Head(items)>> \o Filter(Tail(items))
                                ELSE Filter(Tail(items))

\* Validate structure: the entries of a list that have 'name'; [] for
\* anything that is not a list.
Validate(parsed) ==
    IF parsed.kind = "arr"
      THEN IF \E i \in 1..Len(parsed.items) : NameInRaises(parsed.items[i])
             THEN Raised
             ELSE Returned(JArr(Filter(parsed.items)))
      ELSE Returned(JArr(<<>>))

\* The body of the try block once the model has answered raw: direct parse,
\* then the bracket-delimited substring, then validation.
ParseAndValidate(raw) ==
    LET direct == JsonLoads(raw)
    IN  IF direct.ok THEN Validate(direct.value)
        ELSE LET match == RegexSearch(raw)
             IN  IF match.found
                   THEN LET second == JsonLoads(match.group)
                        IN  IF second.ok THEN Validate(second.value)
                                         ELSE Returned(JArr(<<>>))
                   ELSE Returned(JArr(<<>>))

\* except Exception as e: warn and return [].
\* (ExtractHandlerMutant: the function without this handler.)
ExtractHandlerMutant(r) == r
ExtractHandler(r) == IF r.raised THEN Returned(JArr(<<>>)) ELSE r

\* The model's answers to the extraction prompt: a text or a failure.
RawOutcome(raw) == [kind |-> "text", raw |-> raw]
RawError == [kind |-> "error", raw |-> <<>>]
RawQuota == [kind |-> "quota", raw |-> <<>>]
ExtractOutcomes == {RawOutcome(r) : r \in RawTexts} \cup {RawError, RawQuota}

\* extract_products_from_summaries(summaries, gemini_api_key), with the
\* answer the model gives if it is asked; calls counts the requests sent.
extract_products_from_summaries(sums, key, outcome) ==
    IF sums = <<>> \/ KeyMissing(key)
      THEN [raised |-> FALSE, value |-> JArr(<<>>), calls |-> 0]
      ELSE LET r == ExtractHandler(
                      IF outcome.kind # "text" THEN Raised
                                               ELSE ParseAndValidate(outcome.raw))
           IN  [raised |-> r.raised, value |-> r.value, calls |-> 1]

\* The inputs of a stand-alone call.
OneSummary == <<Summary("t1", "u1", <<"a">>)>>
ApiKeys == {"", PyNone, "kA"}

NoExtResult == [raised |-> FALSE, value |-> JArr(<<>>), calls |-> 0]

NoGapResult == [raised |-> FALSE, value |-> <<>>, calls |-> 0]

GapIdle ==
    /\ gapResponse = ErrorOutcome
    /\ gappc = "off"
    /\ gapResult = NoGapResult

ExtIdle ==
    /\ extSummaries = <<>>
    /\ extKey = ""
    /\ extResponse = RawError
    /\ extpc = "off"
    /\ extResult = NoExtResult
    /\ GapIdle

ExtInit ==
    /\ extSummaries \in {<<>>, OneSummary}
    /\ extKey \in ApiKeys
    /\ extResponse \in ExtractOutcomes
    /\ extpc = "call"
    /\ extResult = NoExtResult
    /\ GapIdle

ExtractCall ==
    /\ extpc = "call"
    /\ extResult' = extract_products_from_summaries(extSummaries, extKey, extResponse)
    /\ extpc' = "done"
    /\ UNCHANGED <<extSummaries, extKey, extResponse, gapResponse, gappc, gapResult,
                   genLog, quotaSeen, genVars, sumVars, inputVars, runVars, concVars>>

---------------------------------------------------------------------------
\* analyze_content_gaps(summaries, gemini_api_key), with the answer the
\* model gives if it is asked.
analyze_content_gapsMutant(sums, key, outcome) ==
    [raised |-> FALSE,
     value  |-> IF Fails(outcome) THEN <<>> ELSE Strip(outcome.text),
     calls  |-> 1]
analyze_content_gaps(sums, key, outcome) ==
    IF sums = <<>> \/ KeyMissing(key)
      THEN [raised |-> FALSE, value |-> <<>>, calls |-> 0]
      ELSE [raised |-> FALSE,
            value  |-> IF Fails(outcome) THEN <<>> ELSE Strip(outcome.text),
            calls  |-> 1]

\* The two stages that work on the summaries, each called once on the same
\* summaries and key.
AnalyzeCall ==
    /\ gappc = "call"
    /\ gapResult' = analyze_content_gaps(extSummaries, extKey, gapResponse)
    /\ gappc' = "done"
    /\ UNCHANGED <<extSummaries, extKey, extResponse, extpc, extResult, gapResponse,
                   genLog, quotaSeen, genVars, sumVars, inputVars, runVars, concVars>>

\* The search service: a ranked list of results, or a failure.
SearchOk(results) == [kind |-> "results", results |-> results]
SearchError == [kind |-> "error", results |-> <<>>]
\* A run is checked against searches that return up to MaxResults results,
\* each with content or without.
RunResultPool ==
    { SearchResult("t1", "u1", Some(<<"a">>), NoneVal, NoneVal, NoneVal),
      SearchResult("t2", "u2", Some(<<>>), NoneVal, Some(<<>>), NoneVal) }
SearchOutcomes ==
    {SearchOk(r) : r \in UNION {[1..n -> RunResultPool] : n \in 0..MaxResults}}
        \cup {SearchError}

\* metaphor_search_articles(query, api_key, num_results): raises ValueError
\* without a key; returns None when the search call raises.
metaphor_search_articles(api_key, outcome) ==
    IF KeyMissing(api_key)
      THEN [raised |-> TRUE, isNone |-> TRUE, results |-> <<>>, calls |-> 0]
      ELSE IF outcome.kind = "error"
             THEN [raised |-> FALSE, isNone |-> TRUE, results |-> <<>>, calls |-> 1]
             ELSE [raised |-> FALSE, isNone |-> FALSE, results |-> outcome.results,
                   calls |-> 1]

\* user_key or os.getenv(...): the user's key if non-empty, else the
\* environment's, which may be unset (None).
ResolveKey(user, env) == IF user # "" THEN user ELSE env

\* The extraction answers a run is checked against: every JSON array of up
\* to MaxRunProducts atoms, one prose answer, and the two failures.
Atoms == {"N", "E", "U", "S", "1"}
RECURSIVE ListBody(_)
ListBody(items) ==
    IF items = <<>> THEN <<>>
    ELSE IF Len(items) = 1 THEN items
    ELSE <<Head(items), ",">> \o ListBody(Tail(items))
ListText(items) == <<"[">> \o ListBody(items) \o <<"]">>
RunRawTexts ==
    {ListText(items) : items \in UNION {[1..n -> Atoms] : n \in 0..MaxRunProducts}}
        \cup {<<"x">>}
RunExtractOutcomes == {RawOutcome(r) : r \in RunRawTexts} \cup {RawError, RawQuota}

max_products == 10
SummarizeCap == 5
\* max_to_summarize=min(5, num_serp_results)
SummarizeLimitMutant(n) == n
SummarizeLimit(n) == Min(SummarizeCap, n)
NumSerpChoices == {10, 100}

\* product['name'] in the checkbox label: TypeError for an entry that is
\* not a dict, KeyError for a dict without the key.
LabelRaises(p) == p.kind # "obj" \/ ~p.hasName

\* The products a checkbox is drawn for.
ShownMutant(prods) == prods
Shown(prods) == IF Len(prods) = 1 THEN prods ELSE Slice(prods, max_products)

\* The entries of seq at the positions in picked, in order.
RECURSIVE Pick(_, _, _)
Pick(seq, picked, i) ==
    IF i > Len(seq) THEN <<>>
    ELSE (IF i \in picked THEN <<seq[i]>> ELSE <<>>) \o Pick(seq, picked, i + 1)

\* The final prompt, as the parts its f-string is filled with.
ProductLine(p) == <<"- ", p.name, " (", p.url, ")">>
ProductsText(selected) ==
    IF selected # <<>> THEN [i \in 1..Len(selected) |-> ProductLine(selected[i])]
                       ELSE << <<"(No products selected)">> >>
ContentGapsTextMutant(gaps) == <<"### Content Gaps to Address:", gaps>>
ContentGapsText(gaps) ==
    IF gaps # <<>> THEN <<"### Content Gaps to Address:", gaps>> ELSE <<>>
BuildPrompt(keywords, sums, selected, gaps) ==
    [keywords |-> keywords, summaries_text |-> sums,
     products_text |-> ProductsText(selected),
     content_gaps_text |-> ContentGapsText(gaps)]
NoPrompt == BuildPrompt(<<>>, <<>>, <<>>, <<>>)

RunIdle ==
    /\ input_blog_keywords = <<>>
    /\ num_serp_results = 10
    /\ user_metaphor_api_key = ""
    /\ user_gemini_api_key = ""
    /\ env_metaphor_api_key = PyNone
    /\ env_gemini_api_key = PyNone
    /\ searchAnswer = SearchError
    /\ runpc = "off"
    /\ metaphor_api_key = ""
    /\ gemini_api_key = ""
    /\ searched = "no"
    /\ searchCalls = 0
    /\ products = <<>>
    /\ selected_products = <<>>
    /\ content_gaps = <<>>
    /\ prompt = NoPrompt
    /\ blog_post = NoneVal
    /\ raisedExc = "none"
    /\ message = "none"

\* The button is pressed with some inputs in the widgets.
RunInit ==
    /\ input_blog_keywords \in Texts
    /\ num_serp_results \in NumSerpChoices
    /\ user_metaphor_api_key \in {"", "kM"}
    /\ user_gemini_api_key \in {"", "kG"}
    /\ env_metaphor_api_key \in {PyNone, "envM"}
    /\ env_gemini_api_key \in {PyNone, "envG"}
    /\ searchAnswer \in SearchOutcomes
    /\ runpc = "main"
    /\ metaphor_api_key = ""
    /\ gemini_api_key = ""
    /\ searched = "no"
    /\ searchCalls = 0
    /\ products = <<>>
    /\ selected_products = <<>>
    /\ content_gaps = <<>>
    /\ prompt = NoPrompt
    /\ blog_post = NoneVal
    /\ raisedExc = "none"
    /\ message = "none"

\* main(): the checks before generate_blog_post is called.
MainStart ==
    /\ runpc = "main"
    /\ LET mk == ResolveKey(user_metaphor_api_key, env_metaphor_api_key)
           gk == ResolveKey(user_gemini_api_key, env_gemini_api_key)
       IN  IF input_blog_keywords = <<>>
             THEN /\ message' = "keywords_required"
                  /\ runpc' = "done"
                  /\ UNCHANGED <<metaphor_api_key, gemini_api_key>>
           ELSE IF KeyMissing(mk)
             THEN /\ message' = "metaphor_key_missing"
                  /\ runpc' = "done"
                  /\ UNCHANGED <<metaphor_api_key, gemini_api_key>>
           ELSE IF KeyMissing(gk)
             THEN /\ message' = "gemini_key_missing"
                  /\ runpc' = "done"
                  /\ UNCHANGED <<metaphor_api_key, gemini_api_key>>
           ELSE /\ metaphor_api_key' = mk
                /\ gemini_api_key' = gk
                /\ runpc' = "search"
                /\ UNCHANGED message
    /\ UNCHANGED <<searched, searchCalls, products, selected_products, content_gaps,
                   prompt, blog_post, raisedExc>>
    /\ UNCHANGED <<genLog, quotaSeen, genVars, sumVars, extVars, inputVars, concVars>>

\* generate_blog_post: the search, and the test of its result.  With
\* results the summarizer is entered; without, the function returns None.
RunSearch ==
    /\ runpc = "search"
    /\ LET r == metaphor_search_articles(metaphor_api_key, searchAnswer)
           found == ~r.raised /\ ~r.isNone /\ r.results # <<>>
       IN    /\ searchCalls' = searchCalls + r.calls
             /\ searched' = IF r.raised THEN "raised"
                            ELSE IF r.isNone THEN "failed"
                            ELSE IF r.results = <<>> THEN "empty" ELSE "results"
             /\ IF found
                  THEN /\ serp_results' = r.results
                       /\ max_to_summarize' = SummarizeLimit(num_serp_results)
                       /\ sumpc' = "loop"
                       /\ sumIdx' = 0
                       /\ summaries' = <<>>
                       /\ runpc' = "summarize"
                  ELSE /\ runpc' = "returned"
                       /\ UNCHANGED sumVars
    /\ blog_post' = NoneVal
    /\ UNCHANGED <<metaphor_api_key, gemini_api_key, products, selected_products,
                   content_gaps, prompt, raisedExc, message>>
    /\ UNCHANGED <<genLog, quotaSeen, genVars, extVars, inputVars, concVars>>

\* Step 2: extract_products_from_summaries(summaries, gemini_api_key).
RunExtract ==
    /\ runpc = "summarize"
    /\ sumpc \in {"done", "raised"}
    /\ IF sumpc = "raised"
         THEN /\ raisedExc' = "RetryError"
              /\ runpc' = "raised"
              /\ UNCHANGED <<products, genLog, quotaSeen>>
         ELSE   LET r == extract_products_from_summaries(summaries, gemini_api_key,
                                                         extResponse)
                IN  /\ genLog' = IF r.calls = 0 THEN genLog
                                 ELSE Append(genLog, LogEntry("extract", 0, 1))
                    /\ quotaSeen' = (quotaSeen \/ (r.calls > 0 /\ extResponse.kind = "quota"))
                    /\ IF r.raised
                         THEN /\ raisedExc' = "Exception"
                              /\ runpc' = "raised"
                              /\ UNCHANGED products
                         ELSE /\ products' = r.value.items
                              /\ runpc' = "select"
                              /\ UNCHANGED raisedExc
    /\ UNCHANGED <<metaphor_api_key, gemini_api_key, searched, searchCalls,
                   selected_products, content_gaps, prompt, blog_post, message>>
    /\ UNCHANGED <<genVars, sumVars, extVars, inputVars, concVars>>

\* The checkboxes: a label is rendered from product['name'] for every
\* product shown, and the checked ones are selected.
RunSelect ==
    /\ runpc = "select"
    /\ IF products = <<>>
         THEN /\ selected_products' = <<>>
              /\ runpc' = "gaps"
              /\ UNCHANGED raisedExc
         ELSE IF \E i \in 1..Len(Shown(products)) : LabelRaises(Shown(products)[i])
           THEN /\ raisedExc' = "TypeError"
                /\ runpc' = "raised"
                /\ UNCHANGED selected_products
           ELSE \E checked \in SUBSET (1..Len(Shown(products))) :
                /\ selected_products' = Pick(Shown(products), checked, 1)
                /\ runpc' = "gaps"
                /\ UNCHANGED raisedExc
    /\ UNCHANGED <<metaphor_api_key, gemini_api_key, searched, searchCalls, products,
                   content_gaps, prompt, blog_post, message>>
    /\ UNCHANGED <<genLog, quotaSeen, genVars, sumVars, extVars, inputVars, concVars>>

\* Step 3: analyze_content_gaps(summaries, gemini_api_key).
RunGaps ==
    /\ runpc = "gaps"
    /\ \E outcome \in ServiceOutcome :
         LET r == analyze_content_gaps(summaries, gemini_api_key, outcome)
         IN  /\ genLog' = IF r.calls = 0 THEN genLog
                          ELSE Append(genLog, LogEntry("gaps", 0, 1))
             /\ quotaSeen' = (quotaSeen \/ (r.calls > 0 /\ outcome.kind = "quota"))
             /\ content_gaps' = r.value
    /\ runpc' = "synth"
    /\ UNCHANGED <<metaphor_api_key, gemini_api_key, searched, searchCalls, products,
                   selected_products, prompt, blog_post, raisedExc, message>>
    /\ UNCHANGED <<genVars, sumVars, extVars, inputVars, concVars>>

\* The final prompt and the call that writes the article.
RunSynth ==
    /\ runpc = "synth"
    /\ prompt' = BuildPrompt(input_blog_keywords, summaries, selected_products,
                             content_gaps)
    /\ \E g \in GenResults :
         /\ genLog' = Append(genLog, LogEntry("synth", 0, g.attempts))
         /\ quotaSeen' = (quotaSeen \/ g.failure = "quota")
         /\ IF g.raised
              THEN /\ raisedExc' = "RetryError"
                   /\ runpc' = "raised"
                   /\ UNCHANGED blog_post
              ELSE /\ blog_post' = g.value
                   /\ runpc' = "returned"
                   /\ UNCHANGED raisedExc
    /\ UNCHANGED <<metaphor_api_key, gemini_api_key, searched, searchCalls, products,
                   selected_products, content_gaps, message>>
    /\ UNCHANGED <<genVars, sumVars, extVars, inputVars, concVars>>

\* main(): what the user is shown once generate_blog_post has returned or
\* raised.  No exception of this model carries the words "quota exceeded".
MainFinish ==
    /\ runpc \in {"returned", "raised"}
    /\ message' = IF runpc = "raised"
                    THEN (IF raisedExc = "quota exceeded" THEN "quota" ELSE "generic")
                    ELSE (IF Truthy(blog_post) THEN "article" ELSE "failed")
    /\ runpc' = "done"
    /\ UNCHANGED <<metaphor_api_key, gemini_api_key, searched, searchCalls, products,
                   selected_products, content_gaps, prompt, blog_post, raisedExc>>
    /\ UNCHANGED <<genLog, quotaSeen, genVars, sumVars, extVars, inputVars, concVars>>

---------------------------------------------------------------------------
\* Two runs in one process, each making calls to the text-generation
\* service with its own key.  Every call site (generate_text_with_
\* exception_handling, extract_products_from_summaries, analyze_content_gaps)
\* has the same three steps: genai.configure(api_key=...) stores the key in
\* the genai module, GenerativeModel(...) and start_chat() take no key, and
\* send_message() issues the request with the key the module holds.
Runs == {1, 2}
RunKeys == {"kA", "kB"}

ConcIdle ==
    /\ configured = PyNone
    /\ ckey = [r \in Runs |-> "kA"]
    /\ cpc = [r \in Runs |-> "off"]
    /\ ccalls = [r \in Runs |-> 0]
    /\ requests = <<>>

ConcInit ==
    /\ configured = PyNone
    /\ ckey \in {f \in [Runs -> RunKeys] : f[1] # f[2]}
    /\ cpc = [r \in Runs |-> "configure"]
    /\ ccalls = [r \in Runs |-> 0]
    /\ requests = <<>>

\* genai.configure(api_key=api_key)
ConcConfigure(r) ==
    /\ cpc[r] = "configure"
    /\ configured' = ckey[r]
    /\ cpc' = [cpc EXCEPT ![r] = "create"]
    /\ UNCHANGED <<ckey, ccalls, requests>>
    /\ UNCHANGED <<genLog, quotaSeen, genVars, sumVars, extVars, inputVars, runVars>>

\* model = genai.GenerativeModel(...); convo = model.start_chat(history=[])
ConcCreateModel(r) ==
    /\ cpc[r] = "create"
    /\ cpc' = [cpc EXCEPT ![r] = "send"]
    /\ UNCHANGED <<configured, ckey, ccalls, requests>>
    /\ UNCHANGED <<genLog, quotaSeen, genVars, sumVars, extVars, inputVars, runVars>>

\* convo.send_message(prompt)
ConcSend(r) ==
    /\ cpc[r] = "send"
    /\ requests' = Append(requests, [run |-> r, key |-> configured])
    /\ ccalls' = [ccalls EXCEPT ![r] = ccalls[r] + 1]
    /\ cpc' = [cpc EXCEPT ![r] =
                  IF ccalls[r] + 1 < MaxConcCalls THEN "configure" ELSE "done"]
    /\ UNCHANGED <<configured, ckey>>
    /\ UNCHANGED <<genLog, quotaSeen, genVars, sumVars, extVars, inputVars, runVars>>

---------------------------------------------------------------------------
\* The specifications.
LogInit == genLog = <<>> /\ quotaSeen = FALSE

\* SpecGen: one call of the text-generation client against a service whose
\* behaviour on each invocation is fixed in advance.
InitGen == LogInit /\ GenInit /\ SumIdle /\ ExtIdle /\ RunIdle /\ ConcIdle
NextGen == GenCall
SpecGen == InitGen /\ [][NextGen]_vars

\* SpecSum: one call of summarize_serp_results.
InitSum == LogInit /\ SumInit /\ GenIdle /\ ExtIdle /\ RunIdle /\ ConcIdle
NextSum == SumIter \/ SumReturn
SpecSum == InitSum /\ [][NextSum]_vars

\* Spec: one run of main(), from the button to the message shown.
\* The answer the model gives to the run's extraction prompt is fixed in
\* advance, like the search answer.
RunExtIdle(answers) ==
    /\ extSummaries = <<>>
    /\ extKey = ""
    /\ extResponse \in answers
    /\ extpc = "off"
    /\ extResult = NoExtResult
    /\ GapIdle

Init ==
    /\ LogInit /\ RunInit /\ GenIdle /\ SumIdle /\ ConcIdle
    /\ RunExtIdle(RunExtractOutcomes)
Next ==
    \/ MainStart
    \/ RunSearch
    \/ SumIter
    \/ SumReturn
    \/ RunExtract
    \/ RunSelect
    \/ RunGaps
    \/ RunSynth
    \/ MainFinish
Spec == Init /\ [][Next]_vars

\* SpecExt: one call of extract_products_from_summaries.
InitExt == LogInit /\ ExtInit /\ GenIdle /\ SumIdle /\ RunIdle /\ ConcIdle
NextExt == ExtractCall
SpecExt == InitExt /\ [][NextExt]_vars

StagesInit ==
    /\ extSummaries \in {<<>>, OneSummary}
    /\ extKey \in ApiKeys
    /\ extResponse \in RunExtractOutcomes
    /\ extpc = "call"
    /\ extResult = NoExtResult
    /\ gapResponse \in ServiceOutcome
    /\ gappc = "call"
    /\ gapResult = NoGapResult

InitStages == LogInit /\ StagesInit /\ GenIdle /\ SumIdle /\ RunIdle /\ ConcIdle
NextStages == ExtractCall \/ AnalyzeCall
SpecStages == InitStages /\ [][NextStages]_vars

\* SpecCap: runs with keywords and both keys, against searches that return
\* up to MaxManyResults results, all with content or all without.
ManyResults ==
    {SearchOk([i \in 1..n |-> r]) : n \in 1..MaxManyResults, r \in RunResultPool}
CapInit ==
    /\ input_blog_keywords = <<"a">>
    /\ num_serp_results \in NumSerpChoices
    /\ user_metaphor_api_key = "kM"
    /\ user_gemini_api_key = "kG"
    /\ env_metaphor_api_key = PyNone
    /\ env_gemini_api_key = PyNone
    /\ searchAnswer \in ManyResults
    /\ runpc = "main"
    /\ metaphor_api_key = ""
    /\ gemini_api_key = ""
    /\ searched = "no"
    /\ searchCalls = 0
    /\ products = <<>>
    /\ selected_products = <<>>
    /\ content_gaps = <<>>
    /\ prompt = NoPrompt
    /\ blog_post = NoneVal
    /\ raisedExc = "none"
    /\ message = "none"
InitCap ==
    /\ LogInit /\ CapInit /\ GenIdle /\ SumIdle /\ ConcIdle
    /\ RunExtIdle({RawOutcome(<<"[", "N", "]">>), RawError})
SpecCap == InitCap /\ [][Next]_vars

\* SpecPick: runs with keywords and both keys whose search returns one
\* result with content, against extraction answers that list up to
\* MaxLongProducts products, named and unnamed in turn.
LongList(n) == [i \in 1..n |-> IF i % 2 = 1 THEN "N" ELSE "E"]
LongAnswers == {RawOutcome(ListText(LongList(n))) : n \in 0..MaxLongProducts}
PickInit ==
    /\ input_blog_keywords = <<"a">>
    /\ num_serp_results \in NumSerpChoices
    /\ user_metaphor_api_key = "kM"
    /\ user_gemini_api_key = "kG"
    /\ env_metaphor_api_key = PyNone
    /\ env_gemini_api_key = PyNone
    /\ searchAnswer =
           SearchOk(<<SearchResult("t1", "u1", Some(<<"a">>), NoneVal, NoneVal, NoneVal)>>)
    /\ runpc = "main"
    /\ metaphor_api_key = ""
    /\ gemini_api_key = ""
    /\ searched = "no"
    /\ searchCalls = 0
    /\ products = <<>>
    /\ selected_products = <<>>
    /\ content_gaps = <<>>
    /\ prompt = NoPrompt
    /\ blog_post = NoneVal
    /\ raisedExc = "none"
    /\ message = "none"
InitPick ==
    /\ LogInit /\ PickInit /\ GenIdle /\ SumIdle /\ ConcIdle
    /\ RunExtIdle(LongAnswers)
SpecPick == InitPick /\ [][Next]_vars

\* SpecConc: two runs with different keys, their steps interleaved.
InitConc == LogInit /\ ConcInit /\ GenIdle /\ SumIdle /\ ExtIdle /\ RunIdle
NextConc == \E r \in Runs : ConcConfigure(r) \/ ConcCreateModel(r) \/ ConcSend(r)
SpecConc == InitConc /\ [][NextConc]_vars

---------------------------------------------------------------------------
\* The run made its final synthesis call.
SynthCalled == \E j \in 1..Len(genLog) : genLog[j].stage = "synth"

\* C1: when the search call fails and both keys are present,
\* generate_blog_post still calls the text-generation client for the final
\* synthesis, with zero summaries, no products and empty gap text, and that
\* call is the only one of the run.
C1_SearchFailureStillSynthesizes ==
    (runpc = "done" /\ searched = "failed") =>
        /\ SynthCalled
        /\ Len(genLog) = 1
        /\ prompt = BuildPrompt(input_blog_keywords, <<>>, <<>>, <<>>)

\* C6: a run with both keys present in which the search returned at least
\* one result does not end before the final synthesis call is made,
\* whatever happens in summarization, product extraction and gap analysis.
C6_SynthesisAlwaysReached ==
    (runpc = "done" /\ searched = "results") => SynthCalled

---------------------------------------------------------------------------
\* C7: when two runs with different keys execute concurrently in one
\* process, every model request is issued with the key that was passed to
\* the call issuing it.
C7_RequestsUseOwnKey ==
    \A i \in 1..Len(requests) : requests[i].key = ckey[requests[i].run]

---------------------------------------------------------------------------
\* A result has content when one of its candidate fields is populated.
Populated(v) == v.some /\ v.text # <<>>
HasContent(r) ==
    \/ Populated(r.content)
    \/ Populated(r.extract)
    \/ Populated(r.description)
    \/ Populated(r.snippet)

\* C4: for every result sequence and every limit >= 0, and every pattern
\* of generation successes and failures, summarize_serp_results returns
\* exactly min(limit, len(results)) summaries, and the i-th summary carries
\* the title and url of the i-th input result.
C4_CountAndOrder ==
    sumpc = "done" =>
        /\ Len(summaries) = Min(max_to_summarize, Len(serp_results))
        /\ \A i \in 1..Len(summaries) :
               /\ summaries[i].title = serp_results[i].title
               /\ summaries[i].url = serp_results[i].url

\* C4 witness: a call returned summaries with the limit cutting the input
\* short.
C4_Witness ==
    /\ sumpc = "done"
    /\ max_to_summarize < Len(serp_results)
    /\ Len(summaries) >= 1
    /\ serp_results[1].title # serp_results[Len(serp_results)].title

\* C5: every Summary returned by summarize_serp_results has a non-empty
\* summary text, whatever the generation outcome (absence, empty string,
\* whitespace-only text or normal text).
C5_SummaryNeverEmpty ==
    sumpc = "done" => \A i \in 1..Len(summaries) : Len(summaries[i].summary) > 0

\* C10: a result with no content field populated gets the placeholder
\* summary without a call of the text-generation client; over a whole call
\* the number of client calls equals the number of processed results that
\* have content.
C10_CallsOnlyForContent ==
    /\ Len(genLog) = Cardinality({i \in 1..sumIdx : HasContent(serp_results[i])})
    /\ \A i \in 1..Len(summaries) :
           ~HasContent(serp_results[i]) =>
               /\ summaries[i].summary =
                      NoContentSummary(serp_results[i].title, serp_results[i].url)
               /\ \A j \in 1..Len(genLog) : genLog[j].index # i

\* C10 witness: a finished call that went through a result without content
\* and a result with content, and called the client once.
C10_Witness ==
    /\ sumpc = "done"
    /\ Len(summaries) = 2
    /\ \E i, j \in 1..Len(summaries) :
           ~HasContent(serp_results[i]) /\ HasContent(serp_results[j])
    /\ Len(genLog) = 1

---------------------------------------------------------------------------
\* The call reached the model and the model answered with a text.
ExtAnswered ==
    /\ extpc = "done" /\ extSummaries # <<>> /\ extKey # "" /\ extKey # PyNone
    /\ extResponse.kind = "text"

\* C8: every entry of the list returned by extract_products_from_summaries
\* has a name field that is present and non-empty.
C8_NamePresentNonEmpty ==
    extpc = "done" =>
        \A i \in 1..Len(extResult.value.items) :
            LET p == extResult.value.items[i]
            IN  p.kind = "obj" /\ p.hasName /\ p.name # ""

\* Neither the whole answer nor its bracket-delimited substring parses.
NothingParses(raw) ==
    /\ ~JsonLoads(raw).ok
    /\ ~(RegexSearch(raw).found /\ JsonLoads(RegexSearch(raw).group).ok)

\* The value the answer parses to is not a list.
ParsesToNonList(raw) ==
    \/ JsonLoads(raw).ok /\ JsonLoads(raw).value.kind # "arr"
    \/ /\ ~JsonLoads(raw).ok
       /\ RegexSearch(raw).found
       /\ JsonLoads(RegexSearch(raw).group).ok
       /\ JsonLoads(RegexSearch(raw).group).value.kind # "arr"

\* C9: extract_products_from_summaries never raises to its caller and
\* always returns a list; when the model call fails, or neither the whole
\* answer nor a bracket-delimited substring parses as JSON, or the parsed
\* value is not a list, the list is empty.
C9_NeverRaisesReturnsList ==
    extpc = "done" =>
        /\ ~extResult.raised
        /\ extResult.value.kind = "arr"
        /\ ( \/ extResponse.kind # "text"
             \/ NothingParses(extResponse.raw)
             \/ ParsesToNonList(extResponse.raw) )
           => extResult.value.items = <<>>

\* C9 witness: the model answered a list with an entry on which the name
\* test raises, and the call returned.
C9_Witness ==
    /\ ExtAnswered
    /\ extResponse.raw = <<"[", "N", ",", "1", "]">>
    /\ extResult.value = JArr(<<>>)

---------------------------------------------------------------------------
\* The stages were called without summaries or without a key.
NoInput == extSummaries = <<>> \/ extKey = "" \/ extKey = PyNone

\* C11: when the summaries are empty or the key is missing, the gap analysis
\* is the empty string and the extracted products the empty list, and
\* neither function has called the generation client.
C11_NoInputNoCall ==
    NoInput =>
      /\ extpc = "done" =>
            /\ ~extResult.raised
            /\ extResult.value = JArr(<<>>)
            /\ extResult.calls = 0
      /\ gappc = "done" =>
            /\ ~gapResult.raised
            /\ gapResult.value = <<>>
            /\ gapResult.calls = 0

\* C11 witness: both stages returned for summaries that are there and a key
\* that is None, with answers that would have given products and gaps.
C11_Witness ==
    /\ extpc = "done" /\ gappc = "done"
    /\ extSummaries # <<>> /\ extKey = PyNone
    /\ ~Fails(gapResponse) /\ Strip(gapResponse.text) # <<>>
    /\ extResponse.kind = "text"

---------------------------------------------------------------------------
\* A key is absent when the user typed none and the environment has none.
SearchKeyAbsent == user_metaphor_api_key = "" /\ env_metaphor_api_key = PyNone
GenKeyAbsent == user_gemini_api_key = "" /\ env_gemini_api_key = PyNone
KeyMessages == {"metaphor_key_missing", "gemini_key_missing"}

\* What a run with an absent key comes to: no article, no call of the
\* search service or of the generation service at any point, and at the
\* end the message of a key that is absent.
AbsentKeyHalts ==
    /\ searchCalls = 0
    /\ genLog = <<>>
    /\ ~SynthCalled
    /\ message # "article"
    /\ runpc = "done" =>
          /\ message \in KeyMessages
          /\ message = "metaphor_key_missing" => SearchKeyAbsent
          /\ message = "gemini_key_missing" => GenKeyAbsent

\* C12, as claimed: if a required API key (search or generation) is absent,
\* the run yields no article, the missing key is reported to the user as a
\* configuration error, and no call to the search service or the generation
\* service is made at any point in that run.
C12_AbsentKeyReported ==
    (SearchKeyAbsent \/ GenKeyAbsent) => AbsentKeyHalts

\* C12, as the code has it: the keyword input is tested before the keys, so
\* the key is reported in the runs whose keyword input is not empty; when
\* both keys are absent the search key is the one reported.
C12_AbsentKeyReportedWithKeywords ==
    (input_blog_keywords # <<>> /\ (SearchKeyAbsent \/ GenKeyAbsent)) =>
        /\ AbsentKeyHalts
        /\ (runpc = "done" /\ SearchKeyAbsent) => message = "metaphor_key_missing"

\* C12 witness: a run with keywords and a search key, without a generation
\* key, ended with the generation key reported.
C12_Witness ==
    /\ runpc = "done"
    /\ input_blog_keywords # <<>>
    /\ ~SearchKeyAbsent /\ GenKeyAbsent
    /\ message = "gemini_key_missing"

---------------------------------------------------------------------------
\* C13: a run ends without an article only if the final synthesis call
\* returned no text, a required key was missing, or the keyword input was
\* empty; every other run, a search that fails or finds nothing included,
\* produces an article.
C13_NoArticleOnlyThreeCases ==
    (runpc = "done" /\ message # "article") =>
        \/ input_blog_keywords = <<>>
        \/ SearchKeyAbsent
        \/ GenKeyAbsent
        \/ SynthCalled /\ ~Truthy(blog_post)

---------------------------------------------------------------------------
\* C14: when the generation service has failed with a quota-exceeded error
\* during the run, the user is shown the quota message; a run ended by any
\* other exception shows the generic message.
C14_QuotaMessageShown ==
    runpc = "done" =>
        /\ quotaSeen => message = "quota"
        /\ (raisedExc # "none" /\ ~quotaSeen) => message = "generic"

---------------------------------------------------------------------------
\* C15: metaphor_search_articles, called with a non-empty key, raises to
\* its caller when the search call fails; it does not return the failure
\* as an ordinary value.
C15_SearchFailureRaised ==
    (searched # "no" /\ metaphor_api_key # "" /\ metaphor_api_key # PyNone
        /\ searchAnswer.kind = "error") => searched = "raised"

---------------------------------------------------------------------------
\* The lines of the product part of a prompt, and its two optional parts.
ProductLines(p) == {p.products_text[j] : j \in 1..Len(p.products_text)}
NamedIn(p, name) == \E line \in ProductLines(p) : Len(line) = 5 /\ line[2] = name
PlaceholderIn(p) == <<"(No products selected)">> \in ProductLines(p)
GapBlockIn(p) ==
    /\ p.content_gaps_text # <<>>
    /\ p.content_gaps_text[1] = "### Content Gaps to Address:"

\* C16: the prompt of the final synthesis carries the keyword string, the
\* name of every selected product and the gap text; it has the placeholder
\* "(No products selected)" exactly when no product is selected, and the
\* content-gap block exactly when the gap text is not empty.
C16_PromptParts ==
    SynthCalled =>
        /\ prompt.keywords = input_blog_keywords
        /\ \A i \in 1..Len(selected_products) :
               NamedIn(prompt, selected_products[i].name)
        /\ PlaceholderIn(prompt) <=> selected_products = <<>>
        /\ GapBlockIn(prompt) <=> content_gaps # <<>>
        /\ content_gaps # <<>> => prompt.content_gaps_text[2] = content_gaps

\* C16 witness: the synthesis call was made with two selected products of
\* different names and a gap text.
C16_Witness ==
    /\ SynthCalled
    /\ Len(selected_products) = 2
    /\ selected_products[1].name # selected_products[2].name
    /\ content_gaps # <<>>
    /\ GapBlockIn(prompt)

---------------------------------------------------------------------------
\* The analyzed results that have content, in ranking order.
RECURSIVE WithContent(_, _)
WithContent(i, n) ==
    IF i > n THEN <<>>
    ELSE (IF HasContent(serp_results[i]) THEN <<i>> ELSE <<>>) \o WithContent(i + 1, n)
Analyzed == WithContent(1, Min(max_to_summarize, Len(serp_results)))

\* C17: in every run where the search returned results, the calls of the
\* generation service are: one per analyzed result that has content, in
\* ranking order, then exactly one product-extraction call, then exactly
\* one content-gap call, then exactly one synthesis call, which is the last
\* call of the run.
C17_CallOrder ==
    (runpc = "done" /\ searched = "results") =>
        /\ Len(genLog) = Len(Analyzed) + 3
        /\ \A j \in 1..Len(Analyzed) :
               genLog[j].stage = "summary" /\ genLog[j].index = Analyzed[j]
        /\ genLog[Len(Analyzed) + 1].stage = "extract"
        /\ genLog[Len(Analyzed) + 2].stage = "gaps"
        /\ genLog[Len(Analyzed) + 3].stage = "synth"

---------------------------------------------------------------------------
\* The summary calls among the calls made so far.
SummaryCalls == {j \in 1..Len(genLog) : genLog[j].stage = "summary"}

\* C18: within a run the summarizer analyzes at most min(5, number of
\* results) results, however many the search returned; a run makes at
\* most 5 summary calls and at most 8 calls of the generation client.
C18_CallsBounded ==
    /\ sumIdx <= Min(5, Len(serp_results))
    /\ Len(summaries) <= Min(5, Len(serp_results))
    /\ Cardinality(SummaryCalls) <= 5
    /\ Len(genLog) <= 8

\* C18 witness: a run finished whose search returned more than five
\* results with content, after five summary calls and eight calls in all.
C18_Witness ==
    /\ runpc = "done"
    /\ Len(serp_results) > 5
    /\ Len(summaries) = 5
    /\ Cardinality(SummaryCalls) = 5
    /\ Len(genLog) = 8

---------------------------------------------------------------------------
\* a is a sub-sequence of b: the entries of a occur in b in the same order.
RECURSIVE IsSubseq(_, _)
IsSubseq(a, b) ==
    IF a = <<>> THEN TRUE
    ELSE IF b = <<>> THEN FALSE
    ELSE IF Head(a) = Head(b) THEN IsSubseq(Tail(a), Tail(b))
    ELSE IsSubseq(a, Tail(b))
FirstTen(s) == SubSeq(s, 1, Min(10, Len(s)))

\* C19: the selected products that go into the synthesis prompt are a
\* sub-sequence of the first 10 entries of the extracted product list, so
\* at most 10 products are selected.
C19_SelectedFromFirstTen ==
    /\ IsSubseq(selected_products, FirstTen(products))
    /\ Len(selected_products) <= 10
    /\ (SynthCalled /\ selected_products # <<>>) =>
           /\ Len(prompt.products_text) = Len(selected_products)
           /\ \A i \in 1..Len(selected_products) :
                  prompt.products_text[i][2] = selected_products[i].name

\* C19 witness: the extraction returned more than ten products, ten of
\* them were selected and the synthesis call was made.
C19_Witness ==
    /\ SynthCalled
    /\ Len(products) > 10
    /\ Len(selected_products) = 10

=============================================================================
